---- MODULE Spec2Model ----
(***************************************************************************)
(* Model of the matching engine of server/src/exchange.rs: the Exchange    *)
(* (order counter, accounts, books), OrderBook::match_order,               *)
(* OrderBook::remove_order and Exchange::handle_message, driven by the     *)
(* single consumer loop of server/src/main.rs.                             *)
(*                                                                         *)
(* Prices are whole numbers (every f64 used here is an exactly             *)
(* representable integer).  A position is a u64 (types.rs Quantity): the   *)
(* stored value v is represented by the integer r with v = r when r >= 0   *)
(* and v = 2^64 + r when r < 0 (a wrapped value), so that wrapping         *)
(* arithmetic is plain arithmetic on representatives.                      *)
(***************************************************************************)
EXTENDS Integers, Sequences, FiniteSets, TLC

\* ------------------------------------------------------------------------
\* Bounds of the model and the input sets of the commands
\* ------------------------------------------------------------------------
\* The number of orders accepted in a run of Spec and SpecBook, and of SpecAll
MaxOrders == 3
MaxOrdersAll == 2
\* The number of messages the command channel holds in SpecWire
MaxChannel == 2

\* Option<T>: None is the empty sequence, Some(x) the one-element sequence
None == << >>

Some(x) == <<x>>

IsSome(opt) == opt # << >>

\* Option::unwrap_or
UnwrapOr(opt, default) == IF opt = << >> THEN default ELSE opt[1]

Instruments == {"X", "Y"}
Accounts == {"A", "B"}
Clients == {"c1", "c2"}
\* (client, account) pairs that submit commands
Sessions == {<<"c1", "A">>, <<"c2", "B">>}
Sides == {"Buy", "Sell"}
Prices == {10, 150}
Quantities == {2, 5}
TimeInForces == {None, Some("ImmediateOrCancel"), Some("FillOrKill")}

\* ------------------------------------------------------------------------
\* Program constants
\* ------------------------------------------------------------------------
InitialCash == 1000
FirstOrderID == 1
DefaultPrice == 0

VARIABLES
    order_counter,   \* Exchange.order_counter
    accounts,        \* Exchange.accounts : AccountID -> Bankroll
    books,           \* Exchange.books : InstrumentID -> OrderBook
    responses,       \* the Vec<EngineMessage> built by the last command
    out,             \* what handle_message returned (Option<EngineMessage>)
    panicked,        \* the consumer thread died on an arithmetic overflow
    wrapping,        \* a u64 overflow has wrapped: the build has overflow checks off
    placed,          \* audit: OrderID -> account, side, instrument of the order,
                     \* and whether it came as a Stop or StopLimit order
    net_qty,         \* audit: per account and instrument, buy fills - sell fills
    net_cash,        \* audit: per account, sell fill value - buy fill value
    conn,            \* where handle_connection stands: first line, reader loop, returned
    channel          \* the messages sent on the command channel and not yet received

vars == <<order_counter, accounts, books, responses, out, panicked,
          wrapping, placed, net_qty, net_cash, conn, channel>>

\* The connection and the command channel, which the engine's handlers do not
\* touch
wire == <<conn, channel>>

\* ------------------------------------------------------------------------
\* Maps (HashMap / BTreeMap) as functions with a growing domain
\* ------------------------------------------------------------------------
EmptyMap == << >>

MapPut(f, k, v) == [x \in DOMAIN f \cup {k} |-> IF x = k THEN v ELSE f[x]]

MapRemove(f, k) == [x \in DOMAIN f \ {k} |-> f[x]]

Min(S) == CHOOSE x \in S : \A y \in S : x <= y

Max(S) == CHOOSE x \in S : \A y \in S : x >= y

\* BTreeMap::keys().next() / iter().next(): the lowest key, if any
FirstKey(m) == IF DOMAIN m = {} THEN None ELSE Some(Min(DOMAIN m))

\* BTreeMap::keys().next_back() / iter().next_back(): the highest key, if any
LastKey(m) == IF DOMAIN m = {} THEN None ELSE Some(Max(DOMAIN m))

\* ------------------------------------------------------------------------
\* Messages
\* ------------------------------------------------------------------------
OrderFilled(client, id, filled, remaining, price, instrument) ==
    [type |-> "OrderFilled", client_id |-> client, order_id |-> id,
     filled_quantity |-> filled, remaining_quantity |-> remaining,
     price |-> price, instrument_id |-> instrument]

OrderAccepted(client, id) ==
    [type |-> "OrderAccepted", client_id |-> client, order_id |-> id]

\* A rejection addressed to no client in particular
OrderRejectedUnaddressed(reason, client) ==
    [type |-> "OrderRejected", reason |-> reason, client_id |-> "UNKNOWN"]

OrderRejected(reason, client) ==
    [type |-> "OrderRejected", reason |-> reason, client_id |-> client]

OrderCancelled(client, id) ==
    [type |-> "OrderCancelled", client_id |-> client, order_id |-> id]

LogEvent(client, message) ==
    [type |-> "LogEvent", client_id |-> client, message |-> message]

\* ------------------------------------------------------------------------
\* Bankroll
\* ------------------------------------------------------------------------
NewBankroll == [cash |-> InitialCash, positions |-> EmptyMap]

\* u64 subtraction a - b on representatives: it overflows when a is a plain
\* value smaller than b
SubOverflows(a, b) == a >= 0 /\ a < b

\* u64 addition a + b on representatives: it overflows when a is a wrapped
\* value and the sum passes 2^64
AddOverflows(a, b) == a < 0 /\ a + b >= 0

\* positions.entry(i).and_modify(|pos| *pos += q).or_insert(q)
PositionAdd(positions, i, q) ==
    IF i \in DOMAIN positions
    THEN [positions EXCEPT ![i] = @ + q]
    ELSE MapPut(positions, i, q)

PositionAddOverflows(positions, i, q) ==
    i \in DOMAIN positions /\ AddOverflows(positions[i], q)

\* positions.entry(i).and_modify(|pos| *pos -= q).or_insert(0)
PositionSub(positions, i, q) ==
    IF i \in DOMAIN positions
    THEN [positions EXCEPT ![i] = @ - q]
    ELSE MapPut(positions, i, 0)

PositionSubOverflows(positions, i, q) ==
    i \in DOMAIN positions /\ SubOverflows(positions[i], q)

\* ------------------------------------------------------------------------
\* OrderBook
\* ------------------------------------------------------------------------
EmptyBook == [bids |-> EmptyMap, asks |-> EmptyMap, order_index |-> EmptyMap]

\* The ladder an aggressor of the given side matches against
Opposite(book, side) == IF side = "Buy" THEN book.asks ELSE book.bids

SetOpposite(book, side, ladder) ==
    IF side = "Buy" THEN [book EXCEPT !.asks = ladder]
    ELSE [book EXCEPT !.bids = ladder]

\* The aggressor's own ladder
Own(book, side) == IF side = "Buy" THEN book.bids ELSE book.asks

SetOwn(book, side, ladder) ==
    IF side = "Buy" THEN [book EXCEPT !.bids = ladder]
    ELSE [book EXCEPT !.asks = ladder]

\* The trigger test with the comparisons the other way round at equality: a
\* best opposite price equal to the order's price does not trigger
StopTriggeredBeyond(book, order) ==
    IF order.side = "Buy"
    THEN IsSome(FirstKey(book.asks)) /\ ~(FirstKey(book.asks)[1] <= order.price)
    ELSE IsSome(LastKey(book.bids)) /\ ~(LastKey(book.bids)[1] >= order.price)

\* The trigger test of a Stop / StopLimit order at submission: the order is
\* buffered when there is no opposite price, when best ask < order.price
\* (buy) or when best bid > order.price (sell)
StopTriggered(book, order) ==
    IF order.side = "Buy"
    THEN IsSome(FirstKey(book.asks)) /\ ~(FirstKey(book.asks)[1] < order.price)
    ELSE IsSome(LastKey(book.bids)) /\ ~(LastKey(book.bids)[1] > order.price)

\* order.order_type after the trigger: Stop -> Market, StopLimit -> Limit
ConvertedType(order_type) ==
    CASE order_type = "Stop" -> "Market"
      [] order_type = "StopLimit" -> "Limit"
      [] OTHER -> order_type

\* The price level the aggressor trades at next: the best opposite price,
\* for an order that is not a Market order only when its price reaches it
\* The limit test with strict comparisons: an order does not trade at a level
\* priced exactly at its limit
PriceReachesStrictly(order, p) ==
    IF order.side = "Buy" THEN order.price > p ELSE order.price < p

PriceReaches(order, p) ==
    IF order.side = "Buy" THEN order.price >= p ELSE order.price <= p

\* The opposite level taken from the far end of the ladder: the highest ask
\* for a buy, the lowest bid for a sell
FarOpposite(book, order) ==
    LET far == IF order.side = "Buy" THEN LastKey(book.asks)
               ELSE FirstKey(book.bids)
    IN  IF far = None THEN None
        ELSE IF order.order_type = "Market" THEN far
        ELSE IF PriceReaches(order, far[1]) THEN far
        ELSE None

BestOpposite(book, order) ==
    LET best == IF order.side = "Buy" THEN FirstKey(book.asks)
                ELSE LastKey(book.bids)
    IN  IF best = None THEN None
        ELSE IF order.order_type = "Market" THEN best
        ELSE IF PriceReaches(order, best[1]) THEN best
        ELSE None

\* The larger of two quantities
Max2(a, b) == IF a >= b THEN a ELSE b

\* trade_qty = order.quantity.min(resting.quantity)
Min2(a, b) == IF a <= b THEN a ELSE b

\* Buyer of a fill: cash -= price * trade_qty, then the position grows
BuyerFill(led, a, i, price, q, checks) ==
    IF led.panicked \/ a \notin DOMAIN led.accounts THEN led
    ELSE LET paid == [led.accounts EXCEPT ![a].cash = @ - price * q]
             over == PositionAddOverflows(paid[a].positions, i, q)
         IN  IF checks /\ over
             THEN [accounts |-> paid, panicked |-> TRUE, wrapped |-> led.wrapped]
             ELSE [accounts |-> [paid EXCEPT ![a].positions = PositionAdd(@, i, q)],
                   panicked |-> FALSE, wrapped |-> led.wrapped \/ over]

\* Seller of a fill: cash += price * trade_qty, then the position shrinks
SellerFill(led, a, i, price, q, checks) ==
    IF led.panicked \/ a \notin DOMAIN led.accounts THEN led
    ELSE LET paid == [led.accounts EXCEPT ![a].cash = @ + price * q]
             over == PositionSubOverflows(paid[a].positions, i, q)
         IN  IF checks /\ over
             THEN [accounts |-> paid, panicked |-> TRUE, wrapped |-> led.wrapped]
             ELSE [accounts |-> [paid EXCEPT ![a].positions = PositionSub(@, i, q)],
                   panicked |-> FALSE, wrapped |-> led.wrapped \/ over]

\* The account updates of one trade: the aggressor's account first, then the
\* resting order's
Settle(accts, order, resting, price, q, checks) ==
    LET led0 == [accounts |-> accts, panicked |-> FALSE, wrapped |-> FALSE]
    IN  IF order.side = "Buy"
        THEN SellerFill(BuyerFill(led0, order.account_id, order.instrument_id,
                                  price, q, checks),
                        resting.account_id, resting.instrument_id, price, q, checks)
        ELSE BuyerFill(SellerFill(led0, order.account_id, order.instrument_id,
                                  price, q, checks),
                       resting.account_id, resting.instrument_id, price, q, checks)

\* The quantity left in the resting order's queue entry after the trade (it is
\* pushed back to the front only when it is larger than the aggressor)
RestingAfter(resting, order) == [resting EXCEPT !.quantity = @ - order.quantity]

\* One iteration of the inner loop: pop the head of the queue at `price`,
\* emit the two fills, settle, and adjust the two quantities
FillOne(st, price, checks) ==
    LET order == st.order
        ladder == Opposite(st.book, order.side)
        resting == Head(ladder[price])
        popped == SetOpposite(st.book, order.side,
                              [ladder EXCEPT ![price] = Tail(@)])
        trade_qty == Min2(order.quantity, resting.quantity)
        fills == st.fills \o
            << OrderFilled(order.sender_id, order.order_id, trade_qty,
                           order.quantity - trade_qty, price, order.instrument_id),
               OrderFilled(resting.sender_id, resting.order_id, trade_qty,
                           resting.quantity - trade_qty, price, resting.instrument_id) >>
        led == Settle(st.accounts, order, resting, price, trade_qty, checks)
        wrapped == st.wrapped \/ led.wrapped
    IN  IF led.panicked
        THEN [book |-> popped, accounts |-> led.accounts, order |-> order,
              fills |-> fills, panicked |-> TRUE, wrapped |-> wrapped]
        ELSE IF resting.quantity > order.quantity
        THEN [book |-> SetOpposite(st.book, order.side,
                         [ladder EXCEPT ![price] =
                             <<RestingAfter(resting, order)>> \o Tail(@)]),
              accounts |-> led.accounts,
              order |-> [order EXCEPT !.quantity = 0],
              fills |-> fills, panicked |-> FALSE, wrapped |-> wrapped]
        ELSE IF resting.quantity < order.quantity
        THEN [book |-> [popped EXCEPT !.order_index = MapRemove(@, resting.order_id)],
              accounts |-> led.accounts,
              order |-> [order EXCEPT !.quantity = @ - resting.quantity],
              fills |-> fills, panicked |-> FALSE, wrapped |-> wrapped]
        ELSE [book |-> [popped EXCEPT !.order_index = MapRemove(@, resting.order_id)],
              accounts |-> led.accounts,
              order |-> [order EXCEPT !.quantity = 0],
              fills |-> fills, panicked |-> FALSE, wrapped |-> wrapped]

\* The inner loop: while order.quantity > 0 && !queue.is_empty()
RECURSIVE SweepLevel(_, _, _)
SweepLevel(st, price, checks) ==
    IF st.panicked \/ st.order.quantity = 0
       \/ Opposite(st.book, st.order.side)[price] = << >>
    THEN st
    ELSE SweepLevel(FillOne(st, price, checks), price, checks)

\* The emptied level removed only while the order still has quantity: a
\* level emptied by the order's last fill stays in the ladder
DropEmptyLevelUnlessDone(st, price) ==
    LET ladder == Opposite(st.book, st.order.side)
    IN  IF ~st.panicked /\ ladder[price] = << >> /\ st.order.quantity > 0
        THEN [st EXCEPT !.book = SetOpposite(st.book, st.order.side,
                                             MapRemove(ladder, price))]
        ELSE st

\* if queue.is_empty() { ladder.remove(&price) }
DropEmptyLevel(st, price) ==
    LET ladder == Opposite(st.book, st.order.side)
    IN  IF ~st.panicked /\ ladder[price] = << >>
        THEN [st EXCEPT !.book = SetOpposite(st.book, st.order.side,
                                             MapRemove(ladder, price))]
        ELSE st

\* The outer loop: while order.quantity > 0, take the best opposite level
RECURSIVE MatchLoop(_, _)
MatchLoop(st, checks) ==
    IF st.panicked \/ st.order.quantity = 0 THEN st
    ELSE LET price == BestOpposite(st.book, st.order)
         IN  IF price = None THEN st
             ELSE MatchLoop(DropEmptyLevel(SweepLevel(st, price[1], checks),
                                           price[1]), checks)

\* The order queued in its ladder and left out of the order index
PostOrderUnindexed(book, order) ==
    LET ladder == Own(book, order.side)
        queue == IF order.price \in DOMAIN ladder THEN ladder[order.price] ELSE << >>
    IN  SetOwn(book, order.side, MapPut(ladder, order.price, Append(queue, order)))

\* push_back on the order's own ladder at order.price, insert into the index
PostOrder(book, order) ==
    LET ladder == Own(book, order.side)
        queue == IF order.price \in DOMAIN ladder THEN ladder[order.price] ELSE << >>
    IN  [SetOwn(book, order.side, MapPut(ladder, order.price, Append(queue, order)))
            EXCEPT !.order_index = MapPut(@, order.order_id, order)]

\* The residual handling by time in force
Residual(st) ==
    IF st.panicked THEN st
    ELSE IF st.order.time_in_force \in {"ImmediateOrCancel", "FillOrKill"} THEN st
    ELSE IF st.order.quantity > 0
    THEN [st EXCEPT !.book = PostOrder(st.book, st.order)]
    ELSE st

\* OrderBook::match_order: the book, the accounts and the fills it returns
match_order(book, order, accts, checks) ==
    IF order.order_type \in {"Stop", "StopLimit"} /\ ~StopTriggered(book, order)
    THEN [book |-> book, accounts |-> accts, order |-> order,
          fills |-> << >>, panicked |-> FALSE, wrapped |-> FALSE]
    ELSE Residual(MatchLoop(
            [book |-> book, accounts |-> accts,
             order |-> [order EXCEPT !.order_type = ConvertedType(@)],
             fills |-> << >>, panicked |-> FALSE, wrapped |-> FALSE], checks))

\* queue.iter().position(|o| o.order_id == order_id)
QueuePosition(queue, order_id) ==
    IF \E k \in 1..Len(queue) : queue[k].order_id = order_id
    THEN Some(Min({k \in 1..Len(queue) : queue[k].order_id = order_id}))
    ELSE None

\* The queue left as it is: nothing is taken out
QueueKeep(queue, idx) == queue

\* queue.remove(idx)
QueueRemove(queue, idx) ==
    [k \in 1..(Len(queue) - 1) |-> IF k < idx THEN queue[k] ELSE queue[k + 1]]

\* A cancellation that gives nothing back
RefundNothing(accts, order, checks) ==
    [accounts |-> accts, panicked |-> FALSE, wrapped |-> FALSE]

\* The refund of remove_order: a buy gets price * quantity of the index's copy
\* of the order back as cash, a sell gets the quantity added to its position
Refund(accts, order, checks) ==
    IF order.account_id \notin DOMAIN accts
    THEN [accounts |-> accts, panicked |-> FALSE, wrapped |-> FALSE]
    ELSE IF order.side = "Buy"
    THEN [accounts |-> [accts EXCEPT ![order.account_id].cash =
                            @ + order.price * order.quantity],
          panicked |-> FALSE, wrapped |-> FALSE]
    ELSE LET over == PositionAddOverflows(accts[order.account_id].positions,
                                          order.instrument_id, order.quantity)
         IN  IF checks /\ over
             THEN [accounts |-> accts, panicked |-> TRUE, wrapped |-> FALSE]
             ELSE [accounts |-> [accts EXCEPT ![order.account_id].positions =
                                PositionAdd(@, order.instrument_id, order.quantity)],
                   panicked |-> FALSE, wrapped |-> over]

\* OrderBook::remove_order: removed = the bool it returns
remove_order(book, order_id, accts, checks) ==
    LET miss == [removed |-> FALSE, book |-> book, accounts |-> accts,
                 panicked |-> FALSE, wrapped |-> FALSE]
    IN  IF order_id \notin DOMAIN book.order_index THEN miss
        ELSE LET order == book.order_index[order_id]
                 ladder == Own(book, order.side)
             IN  IF order.price \notin DOMAIN ladder THEN miss
                 ELSE LET idx == QueuePosition(ladder[order.price], order_id)
                      IN  IF idx = None THEN miss
                          ELSE LET queue == QueueRemove(ladder[order.price], idx[1])
                                   ladder2 == IF queue = << >>
                                              THEN MapRemove(ladder, order.price)
                                              ELSE [ladder EXCEPT ![order.price] = queue]
                                   book2 == [SetOwn(book, order.side, ladder2)
                                               EXCEPT !.order_index = MapRemove(@, order_id)]
                                   led == Refund(accts, order, checks)
                               IN  [removed |-> TRUE, book |-> book2,
                                    accounts |-> led.accounts,
                                    panicked |-> led.panicked,
                                    wrapped |-> led.wrapped]

\* ------------------------------------------------------------------------
\* Audit of the emitted fills (history, not program state)
\* ------------------------------------------------------------------------
\* The fills of one command booked to the accounts that placed the orders:
\* a buy fill adds its quantity and costs price * quantity, a sell fill
\* takes its quantity and earns price * quantity
RECURSIVE BookQty(_, _, _)
BookQty(nq, fills, owner) ==
    IF fills = << >> THEN nq
    ELSE LET f == Head(fills)
             o == owner[f.order_id]
             d == IF o.side = "Buy" THEN f.filled_quantity ELSE 0 - f.filled_quantity
         IN  BookQty([nq EXCEPT ![o.account_id][f.instrument_id] = @ + d],
                     Tail(fills), owner)

RECURSIVE BookCash(_, _, _)
BookCash(nc, fills, owner) ==
    IF fills = << >> THEN nc
    ELSE LET f == Head(fills)
             o == owner[f.order_id]
             d == IF o.side = "Buy" THEN 0 - f.price * f.filled_quantity
                  ELSE f.price * f.filled_quantity
         IN  BookCash([nc EXCEPT ![o.account_id] = @ + d], Tail(fills), owner)

\* ------------------------------------------------------------------------
\* Exchange
\* ------------------------------------------------------------------------
\* Exchange::new, before the first command
Init ==
    /\ order_counter = FirstOrderID
    /\ accounts = EmptyMap
    /\ books = EmptyMap
    /\ responses = << >>
    /\ out = None
    /\ panicked = FALSE
    /\ wrapping = FALSE
    /\ placed = EmptyMap
    /\ net_qty = [a \in Accounts |-> [i \in Instruments |-> 0]]
    /\ net_cash = [a \in Accounts |-> 0]
    /\ conn = "first"
    /\ channel = << >>

\* CreateInstrument installing an empty book whether or not one exists
CreateInstrumentAnew(instrument_id) ==
    /\ ~panicked
    /\ books' = MapPut(books, instrument_id, EmptyBook)
    /\ responses' = << >>
    /\ out' = None
    /\ UNCHANGED <<order_counter, accounts, panicked, wrapping,
                   placed, net_qty, net_cash>>

\* handle_message, CreateInstrument: books.entry(i).or_insert_with(empty book)
CreateInstrument(instrument_id) ==
    /\ ~panicked
    /\ books' = IF instrument_id \in DOMAIN books THEN books
                ELSE MapPut(books, instrument_id, EmptyBook)
    /\ responses' = << >>
    /\ out' = None
    /\ UNCHANGED <<order_counter, accounts, panicked, wrapping,
                   placed, net_qty, net_cash>>

\* The overflow behaviours the build can still show: an overflowing u64
\* operation panics when the build has overflow checks (checks = TRUE) and
\* wraps when it has none; once an operation has wrapped, the build is known
\* to have none.  The two builds differ only in a command that overflows.
BuildChecks == IF wrapping THEN {FALSE} ELSE {TRUE, FALSE}

\* accounts.entry(account_id).or_insert_with(Bankroll { cash: 1000, .. })
WithAccount(accts, account_id) ==
    IF account_id \in DOMAIN accts THEN accts
    ELSE MapPut(accts, account_id, NewBankroll)

\* The cost of one unit only: the quantity is left out of the product
UnitCost(price, quantity) == UnwrapOr(price, DefaultPrice)

\* unit_price * quantity, the amount checked against and taken from the cash
TotalCost(price, quantity) == UnwrapOr(price, DefaultPrice) * quantity

\* An order record that always carries the first OrderID
NewOrderRecordFirstID(order_id, client_id, account_id, instrument_id, order_type, side, quantity, price, time_in_force) ==
    [order_id |-> FirstOrderID, price |-> UnwrapOr(price, DefaultPrice),
     quantity |-> quantity, side |-> side, order_type |-> order_type,
     time_in_force |-> UnwrapOr(time_in_force, "Day"),
     instrument_id |-> instrument_id, account_id |-> account_id,
     sender_id |-> client_id]

NewOrderRecord(order_id, client_id, account_id, instrument_id, order_type, side, quantity, price, time_in_force) ==
    [order_id |-> order_id, price |-> UnwrapOr(price, DefaultPrice),
     quantity |-> quantity, side |-> side, order_type |-> order_type,
     time_in_force |-> UnwrapOr(time_in_force, "Day"),
     instrument_id |-> instrument_id, account_id |-> account_id,
     sender_id |-> client_id]

\* responses.remove(0) when the vector is not empty
FirstResponse(resp) == IF resp = << >> THEN None ELSE Some(Head(resp))

\* handle_message, NewOrder
\* A counter that stays where it is
KeepCounter(counter) == counter

\* handle_message, NewOrder: self.order_counter += 1, after order_id took the
\* counter's value
AdvanceCounter(counter) == counter + 1

NewOrder(client_id, account_id, instrument_id, order_type, side, quantity, price, time_in_force) ==
    /\ ~panicked
    /\ IF instrument_id \notin DOMAIN books
       THEN /\ out' = Some(OrderRejected("Unknown instrument", client_id))
            /\ responses' = << >>
            /\ UNCHANGED <<order_counter, accounts, books, panicked, wrapping,
                           placed, net_qty, net_cash>>
       ELSE LET accts == WithAccount(accounts, account_id)
                total_cost == TotalCost(price, quantity)
            IN  IF accts[account_id].cash < total_cost
                THEN /\ out' = Some(OrderRejected("Insufficient funds", client_id))
                     /\ responses' = << >>
                     /\ accounts' = accts
                     /\ UNCHANGED <<order_counter, books, panicked, wrapping,
                                    placed, net_qty, net_cash>>
                ELSE \E checks \in BuildChecks :
                     LET order_id == order_counter
                         order == NewOrderRecord(order_id, client_id, account_id,
                                      instrument_id, order_type, side, quantity,
                                      price, time_in_force)
                         m == match_order(books[instrument_id], order,
                                  [accts EXCEPT ![account_id].cash = @ - total_cost],
                                  checks)
                         resp == Append(m.fills, OrderAccepted(client_id, order_id))
                         owner == MapPut(placed, order_id,
                                     [account_id |-> account_id, side |-> side,
                                      instrument_id |-> instrument_id,
                                      stop |-> order_type \in {"Stop", "StopLimit"}])
                     IN  /\ checks => m.panicked
                         /\ order_counter' = AdvanceCounter(order_counter)
                         /\ books' = [books EXCEPT ![instrument_id] = m.book]
                         /\ accounts' = m.accounts
                         /\ panicked' = m.panicked
                         /\ wrapping' = (wrapping \/ m.wrapped)
                         /\ responses' = IF m.panicked THEN m.fills ELSE resp
                         /\ out' = IF m.panicked THEN None ELSE FirstResponse(resp)
                         /\ placed' = owner
                         /\ net_qty' = BookQty(net_qty, m.fills, owner)
                         /\ net_cash' = BookCash(net_cash, m.fills, owner)

\* handle_message, CancelOrder: the first book whose remove_order returns
\* true ends the loop; no book having the order, the command is rejected
CancelOrder(order_id, client_id, account_id) ==
    /\ ~panicked
    /\ IF \E i \in DOMAIN books :
            remove_order(books[i], order_id, accounts, FALSE).removed
       THEN \E i \in DOMAIN books, checks \in BuildChecks :
              LET r == remove_order(books[i], order_id, accounts, checks)
              IN  /\ r.removed
                  /\ checks => r.panicked
                  /\ books' = [books EXCEPT ![i] = r.book]
                  /\ accounts' = r.accounts
                  /\ panicked' = r.panicked
                  /\ wrapping' = (wrapping \/ r.wrapped)
                  /\ responses' = << >>
                  /\ out' = IF r.panicked THEN None
                            ELSE Some(OrderCancelled(client_id, order_id))
       ELSE /\ out' = Some(OrderRejected("Order not found", client_id))
            /\ responses' = << >>
            /\ UNCHANGED <<accounts, books, panicked, wrapping>>
    /\ UNCHANGED <<order_counter, placed, net_qty, net_cash>>

\* handle_message, AmendOrder
AmendOrder(client_id) ==
    /\ ~panicked
    /\ out' = Some(LogEvent(Some(client_id), "Amend not yet implemented"))
    /\ responses' = << >>
    /\ UNCHANGED <<order_counter, accounts, books, panicked, wrapping,
                   placed, net_qty, net_cash>>

\* An AmendOrder message as handle_message takes it: the arm binds client_id
\* and no other field
AmendOrderCommand(client_id, order_id, new_quantity, new_price) ==
    AmendOrder(client_id)

\* handle_message, AdvanceTime
AdvanceTime(client_id) ==
    /\ ~panicked
    /\ out' = Some(LogEvent(Some(client_id), "AdvanceTime not yet implemented"))
    /\ responses' = << >>
    /\ UNCHANGED <<order_counter, accounts, books, panicked, wrapping,
                   placed, net_qty, net_cash>>

\* handle_message, any other message (Snapshot, a response variant, ...)
Unsupported ==
    /\ ~panicked
    /\ out' = Some(LogEvent(None, "Unsupported message received"))
    /\ responses' = << >>
    /\ UNCHANGED <<order_counter, accounts, books, panicked, wrapping,
                   placed, net_qty, net_cash>>

\* handle_message given a Snapshot message: no arm names the variant, the
\* catch-all arm answers
Snapshot(instrument_id) == Unsupported

OrderIDs == FirstOrderID..MaxOrders

NewOrderCommand(session, instrument_id, order_type, side, quantity, price, time_in_force) ==
    [client_id |-> session[1], account_id |-> session[2],
     instrument_id |-> instrument_id, order_type |-> order_type, side |-> side,
     quantity |-> quantity, price |-> price, time_in_force |-> time_in_force]

Submit(o) ==
    NewOrder(o.client_id, o.account_id, o.instrument_id, o.order_type, o.side,
             o.quantity, o.price, o.time_in_force)

\* The NewOrder commands of Spec: limit orders of both sessions at one price
LimitOrders ==
    {NewOrderCommand(s, "X", "Limit", side, q, Some(10), tif) :
        s \in Sessions, side \in Sides, q \in Quantities, tif \in TimeInForces}

\* Two accounts trading limit orders on one instrument
Next ==
    \/ CreateInstrument("X") /\ UNCHANGED wire
    \/ \E o \in LimitOrders : order_counter <= MaxOrders /\ Submit(o) /\ UNCHANGED wire
    \/ \E id \in OrderIDs, s \in Sessions : CancelOrder(id, s[1], s[2]) /\ UNCHANGED wire

Spec == Init /\ [][Next]_vars

\* The NewOrder commands of SpecBook: market orders and limit orders at two
\* prices, from one session
LadderShapes == {<<"Market", None>>} \cup {<<"Limit", Some(p)>> : p \in Prices}

LadderOrders ==
    {NewOrderCommand(<<"c1", "A">>, "X", shape[1], side, q, shape[2], tif) :
        shape \in LadderShapes, side \in Sides, q \in Quantities,
        tif \in TimeInForces}

\* One account trading market and limit orders at two prices
NextBook ==
    \/ CreateInstrument("X") /\ UNCHANGED wire
    \/ \E o \in LadderOrders : order_counter <= MaxOrders /\ Submit(o) /\ UNCHANGED wire
    \/ \E id \in OrderIDs, s \in Sessions : CancelOrder(id, s[1], s[2]) /\ UNCHANGED wire

SpecBook == Init /\ [][NextBook]_vars

\* The order type and price pairs the wire decoder produces: a price is
\* parsed for Limit and StopLimit orders only
OrderShapes ==
    {<<"Market", None>>, <<"Stop", None>>}
      \cup {<<t, Some(p)>> : t \in {"Limit", "StopLimit"}, p \in Prices}

\* The NewOrder commands of SpecAll: every order type, from one session
AllTypeOrders ==
    {NewOrderCommand(<<"c1", "A">>, i, shape[1], side, q, shape[2], tif) :
        i \in Instruments, shape \in OrderShapes, side \in Sides,
        q \in Quantities, tif \in TimeInForces}

\* Every command and every order type, on two instruments
NextAll ==
    \/ \E i \in Instruments : CreateInstrument(i) /\ UNCHANGED wire
    \/ \E o \in AllTypeOrders : order_counter <= MaxOrdersAll /\ Submit(o) /\ UNCHANGED wire
    \/ \E id \in OrderIDs, s \in Sessions : CancelOrder(id, s[1], s[2]) /\ UNCHANGED wire
    \/ \E c \in Clients : AmendOrder(c) /\ UNCHANGED wire
    \/ \E c \in Clients : AdvanceTime(c) /\ UNCHANGED wire
    \/ Unsupported /\ UNCHANGED wire

SpecAll == Init /\ [][NextAll]_vars

\* The NewOrder commands of SpecIngress: limit orders whose quantity may be 0
\* and whose price may be negative, as the wire decoder lets them through
\* (Quantity is any u64, Price any f64)
IngressOrders ==
    {NewOrderCommand(<<"c1", "A">>, "X", "Limit", side, q, Some(p), None) :
        side \in Sides, q \in {0, 2}, p \in {0 - 10, 10}}

\* One account sending limit orders with boundary quantities and prices
NextIngress ==
    \/ CreateInstrument("X") /\ UNCHANGED wire
    \/ \E o \in IngressOrders : order_counter <= MaxOrders /\ Submit(o) /\ UNCHANGED wire
    \/ \E id \in OrderIDs, s \in Sessions : CancelOrder(id, s[1], s[2]) /\ UNCHANGED wire

SpecIngress == Init /\ [][NextIngress]_vars

\* The messages the wire decoder makes of the lines of a connection
InvalidMessage == [type |-> "InvalidMessage"]

WireMessages ==
    {InvalidMessage,
     [type |-> "CreateInstrument", instrument_id |-> "X"],
     [type |-> "CancelOrder", order_id |-> FirstOrderID, client_id |-> "c1",
      account_id |-> "A"]}
      \cup {[type |-> "NewOrder",
             order |-> NewOrderCommand(<<"c1", "A">>, "X", "Limit", side, 2,
                                       Some(10), None)] : side \in Sides}

\* handle_connection reads one line and decodes it to message: an invalid
\* first line ends the handler; a valid first line and every later line,
\* whatever it decodes to, is sent on the command channel
ReceiveLine(message) ==
    /\ Len(channel) < MaxChannel
    /\ \/ /\ conn = "first"
          /\ message.type = "InvalidMessage"
          /\ conn' = "returned"
          /\ channel' = channel
       \/ /\ conn = "first"
          /\ message.type # "InvalidMessage"
          /\ conn' = "reader"
          /\ channel' = Append(channel, message)
       \/ /\ conn = "reader"
          /\ conn' = "reader"
          /\ channel' = Append(channel, message)
    /\ UNCHANGED <<order_counter, accounts, books, responses, out, panicked,
                   wrapping, placed, net_qty, net_cash>>

\* The lines of the connection end, and with them the reader loop
CloseConnection ==
    /\ conn = "reader"
    /\ conn' = "returned"
    /\ UNCHANGED <<order_counter, accounts, books, responses, out, panicked,
                   wrapping, placed, net_qty, net_cash, channel>>

\* The accept loop starts handle_connection for the next connection
AcceptConnection ==
    /\ conn = "returned"
    /\ conn' = "first"
    /\ UNCHANGED <<order_counter, accounts, books, responses, out, panicked,
                   wrapping, placed, net_qty, net_cash, channel>>

\* The consumer loop receives the oldest message of the channel and hands it
\* to handle_message
Consume ==
    /\ channel # << >>
    /\ channel' = Tail(channel)
    /\ conn' = conn
    /\ LET message == Head(channel)
       IN  CASE message.type = "CreateInstrument" ->
                    CreateInstrument(message.instrument_id)
             [] message.type = "NewOrder" ->
                    order_counter <= MaxOrders /\ Submit(message.order)
             [] message.type = "CancelOrder" ->
                    CancelOrder(message.order_id, message.client_id,
                                message.account_id)
             [] OTHER -> Unsupported

\* One connection at a time feeding the command channel, and the consumer
NextWire ==
    \/ \E message \in WireMessages : ReceiveLine(message)
    \/ CloseConnection
    \/ AcceptConnection
    \/ Consume

SpecWire == Init /\ [][NextWire]_vars

\* ------------------------------------------------------------------------
\* Observations used by the properties
\* ------------------------------------------------------------------------
RECURSIVE SumFn(_)
SumFn(f) ==
    IF DOMAIN f = {} THEN 0
    ELSE LET x == CHOOSE x \in DOMAIN f : TRUE
         IN  f[x] + SumFn([y \in DOMAIN f \ {x} |-> f[y]])

\* The places <<instrument, price, index>> of the orders queued in a ladder
BidSlots ==
    UNION {UNION {{<<i, p, k>> : k \in 1..Len(books[i].bids[p])} :
                  p \in DOMAIN books[i].bids} : i \in DOMAIN books}

AskSlots ==
    UNION {UNION {{<<i, p, k>> : k \in 1..Len(books[i].asks[p])} :
                  p \in DOMAIN books[i].asks} : i \in DOMAIN books}

BidAt(slot) == books[slot[1]].bids[slot[2]][slot[3]]

AskAt(slot) == books[slot[1]].asks[slot[2]][slot[3]]

\* The orders queued in the ladders, as queued (with their remaining quantity)
QueuedOrders == {BidAt(x) : x \in BidSlots} \cup {AskAt(x) : x \in AskSlots}

\* The cash held for the resting buy orders: limit price x remaining quantity
ReservedCash == SumFn([x \in BidSlots |-> BidAt(x).price * BidAt(x).quantity])

TotalCash == SumFn([a \in DOMAIN accounts |-> accounts[a].cash])

\* An account's cash and position, an account or position not yet created
\* counting with its initial value
CashOf(accts, a) == IF a \in DOMAIN accts THEN accts[a].cash ELSE InitialCash

PositionOf(accts, a, i) ==
    IF a \in DOMAIN accts /\ i \in DOMAIN accts[a].positions
    THEN accts[a].positions[i] ELSE 0

HasResting(a) == \E o \in QueuedOrders : o.account_id = a

\* ------------------------------------------------------------------------
\* Properties
\* ------------------------------------------------------------------------

\* C1: cash conservation: the cash of all accounts plus the reservations held
\* for resting buy orders is 1000 times the number of accounts created.
CashConservation ==
    ~panicked =>
        TotalCash + ReservedCash = InitialCash * Cardinality(DOMAIN accounts)

\* C2: an account with no resting orders has cash 1000 plus the value of its
\* sell fills minus the value of its buy fills.
CashMatchesFills ==
    ~panicked =>
        \A a \in DOMAIN accounts :
            ~HasResting(a) => accounts[a].cash = InitialCash + net_cash[a]

\* C3: every position is the quantity of the account's buy fills minus that of
\* its sell fills on the instrument, negative if need be, and no position
\* arithmetic overflows.
PositionsMatchFills ==
    /\ ~panicked
    /\ ~wrapping
    /\ \A a \in Accounts, i \in Instruments :
           PositionOf(accounts, a, i) = net_qty[a][i]

\* C4: position symmetry: for every instrument the positions of all accounts
\* sum to 0.
PositionSymmetry ==
    ~panicked =>
        \A i \in Instruments :
            SumFn([a \in Accounts |-> PositionOf(accounts, a, i)]) = 0

\* C5: no crossed book: in a book with a bid level and an ask level the
\* highest bid price is strictly below the lowest ask price.
NoCrossedBook ==
    \A i \in DOMAIN books :
        (DOMAIN books[i].bids # {} /\ DOMAIN books[i].asks # {})
            => Max(DOMAIN books[i].bids) < Min(DOMAIN books[i].asks)

\* A two-sided book left by an order that traded and then rested its
\* remainder.
TwoSidedBookAfterTrade ==
    /\ ~panicked
    /\ \E i \in DOMAIN books :
           /\ DOMAIN books[i].bids # {}
           /\ DOMAIN books[i].asks # {}
    /\ Len(responses) = 3
    /\ responses[1].type = "OrderFilled"
    /\ responses[1].remaining_quantity > 0

\* The NewOrder commands of all specifications
Orders == LimitOrders \cup LadderOrders \cup AllTypeOrders

\* The order a NewOrder command becomes when it is accepted now
OrderOf(o) ==
    NewOrderRecord(order_counter, o.client_id, o.account_id, o.instrument_id,
                   o.order_type, o.side, o.quantity, o.price, o.time_in_force)

\* The step is the acceptance of the NewOrder command o, run to its end
Accepts(o) ==
    /\ o.instrument_id \in DOMAIN books
    /\ Submit(o)
    /\ order_counter' = order_counter + 1
    /\ ~panicked'

\* The quantity the opposite ladder holds at prices acceptable to the order
AcceptableQty(book, order) ==
    LET ladder == Opposite(book, order.side)
        levels == {p \in DOMAIN ladder :
                      order.order_type = "Market" \/ PriceReaches(order, p)}
    IN  SumFn([x \in UNION {{<<p, k>> : k \in 1..Len(ladder[p])} : p \in levels}
                  |-> ladder[x[1]][x[2]].quantity])

SameLedger(a) ==
    /\ CashOf(accounts', a) = CashOf(accounts, a)
    /\ \A i \in Instruments : PositionOf(accounts', a, i) = PositionOf(accounts, a, i)

\* C6: fill-or-kill is atomic: a FOK order that the opposite ladder cannot
\* fill completely at acceptable prices causes no fill, leaves the book and
\* every account's cash and positions as they were, and ends with
\* OrderCancelled.
FillOrKillAtomic ==
    [][\A o \in Orders :
          (/\ o.time_in_force = Some("FillOrKill")
           /\ o.order_type \in {"Market", "Limit"}
           /\ Accepts(o)
           /\ AcceptableQty(books[o.instrument_id], OrderOf(o)) < o.quantity)
          => /\ \A k \in 1..Len(responses') : responses'[k].type # "OrderFilled"
             /\ books' = books
             /\ \A a \in Accounts : SameLedger(a)
             /\ responses' # << >>
             /\ responses'[Len(responses')] =
                    OrderCancelled(o.client_id, order_counter)]_vars

\* C7: cancelling a resting buy order credits its account with the limit
\* price times the quantity the order has left in its queue.
CancelRefundsRemaining ==
    [][\A id \in OrderIDs, s \in Sessions :
          (/\ \E o \in QueuedOrders : o.order_id = id /\ o.side = "Buy"
           /\ CancelOrder(id, s[1], s[2]))
          => LET o == CHOOSE o \in QueuedOrders : o.order_id = id
             IN  accounts'[o.account_id].cash =
                     accounts[o.account_id].cash + o.price * o.quantity]_vars

\* C8: a successful CancelOrder leaves every position of every account
\* unchanged.
CancelKeepsPositions ==
    [][\A id \in OrderIDs, s \in Sessions :
          (/\ CancelOrder(id, s[1], s[2])
           /\ out' = Some(OrderCancelled(s[1], id)))
          => \A a \in Accounts, i \in Instruments :
                 PositionOf(accounts', a, i) = PositionOf(accounts, a, i)]_vars

\* C9: an IOC or FOK buy order that finds no matching ask leaves its account's
\* cash as it was before the order: the reservation is released with the
\* discarded remainder.
DiscardReleasesCash ==
    [][\A o \in Orders :
          (/\ o.time_in_force \in {Some("ImmediateOrCancel"), Some("FillOrKill")}
           /\ o.order_type \in {"Market", "Limit"}
           /\ o.side = "Buy"
           /\ Accepts(o)
           /\ BestOpposite(books[o.instrument_id], OrderOf(o)) = None)
          => CashOf(accounts', o.account_id) = CashOf(accounts, o.account_id)]_vars

\* C10: a sell order on a known instrument is never rejected for insufficient
\* funds, and one that rests without matching leaves its account's cash
\* unchanged.
SellsNotCashReserved ==
    [][\A o \in Orders :
          (/\ o.side = "Sell"
           /\ o.instrument_id \in DOMAIN books
           /\ Submit(o))
          => /\ out' # Some(OrderRejected("Insufficient funds", o.client_id))
             /\ (/\ responses' = <<OrderAccepted(o.client_id, order_counter)>>
                 /\ order_counter \in DOMAIN books'[o.instrument_id].order_index)
                => CashOf(accounts', o.account_id) = CashOf(accounts, o.account_id)]_vars

\* The events the consumer loop hands to the outbound channel for the last
\* command: the one message handle_message returned, if any
Emitted == IF out = None THEN << >> ELSE <<out[1]>>

\* C11: a limit buy on a known instrument is rejected exactly when the
\* account's cash is below price x quantity; a rejected one takes no OrderID
\* and leaves the books and the cash of the existing accounts unchanged; an
\* accepted one takes price x quantity from the account's cash at acceptance
\* (the settlement of its fills coming on top of that).
LimitBuyFundsCheck ==
    [][\A o \in LadderOrders :
          (/\ o.order_type = "Limit"
           /\ o.side = "Buy"
           /\ o.instrument_id \in DOMAIN books
           /\ Submit(o))
          => LET a == o.account_id
                 cost == o.price[1] * o.quantity
             IN  IF CashOf(accounts, a) < cost
                 THEN /\ out' = Some(OrderRejected("Insufficient funds", o.client_id))
                      /\ order_counter' = order_counter
                      /\ books' = books
                      /\ \A b \in DOMAIN accounts :
                             accounts'[b].cash = accounts[b].cash
                 ELSE /\ \A k \in 1..Len(Emitted') : Emitted'[k].type # "OrderRejected"
                      /\ order_counter' = order_counter + 1
                      /\ ~panicked' =>
                             CashOf(accounts', a) =
                                 CashOf(accounts, a) - cost
                                     + (net_cash'[a] - net_cash[a])]_vars

\* A limit buy has just been rejected for funds: the account cannot pay for
\* 5 at 150, no OrderID was taken since the last accepted order
LimitBuyRejected ==
    /\ \E c \in Clients : out = Some(OrderRejected("Insufficient funds", c))
    /\ "A" \in DOMAIN accounts
    /\ accounts["A"].cash < 150 * 5
    /\ accounts["A"].cash >= 0
    /\ order_counter > FirstOrderID

\* C12: a Market buy is rejected when the account's cash is below best ask x
\* quantity, and no account's cash is ever below zero.
MarketBuyFundsCheck ==
    [][/\ \A o \in Orders :
             (/\ o.order_type = "Market"
              /\ o.side = "Buy"
              /\ o.instrument_id \in DOMAIN books
              /\ DOMAIN books[o.instrument_id].asks # {}
              /\ CashOf(accounts, o.account_id)
                     < Min(DOMAIN books[o.instrument_id].asks) * o.quantity
              /\ Submit(o))
             => /\ Emitted' # << >>
                /\ Emitted'[1].type = "OrderRejected"
       /\ \A a \in DOMAIN accounts' : accounts'[a].cash >= 0]_vars

\* C13: every NewOrder that is not rejected has exactly one OrderAccepted
\* among the events the engine emits for it, carrying the OrderID assigned to
\* the order and the client that submitted it, whether or not it matched.
AcceptedEmittedOnce ==
    [][\A o \in Orders :
          Accepts(o)
          => /\ Cardinality({k \in 1..Len(Emitted') :
                                Emitted'[k].type = "OrderAccepted"}) = 1
             /\ \E k \in 1..Len(Emitted') :
                    Emitted'[k] = OrderAccepted(o.client_id, order_counter)]_vars

\* C14: the fills of a command come in pairs of equal quantity and price, the
\* aggressor's fill first and the resting order's fill right after it, all of
\* them before the terminal event of the aggressor, and every one of them is
\* emitted.
FillPairsEmitted ==
    ~panicked =>
        \A k \in 1..Len(responses) :
            responses[k].type = "OrderFilled"
            => /\ \A j \in 1..k : responses[j].type = "OrderFilled"
               /\ (k % 2 = 1) =>
                     /\ k + 1 <= Len(responses)
                     /\ responses[k + 1].type = "OrderFilled"
                     /\ responses[k + 1].filled_quantity = responses[k].filled_quantity
                     /\ responses[k + 1].price = responses[k].price
                     /\ responses[k].order_id = order_counter - 1
                     /\ responses[k + 1].order_id # order_counter - 1
               /\ k <= Len(Emitted)
               /\ Emitted[k] = responses[k]

\* C15: an IOC order that the opposite ladder cannot fill completely never
\* rests in a ladder or in the order index, and OrderCancelled is among the
\* events of the command; with nothing to trade against the events are
\* OrderAccepted and OrderCancelled.
ImmediateOrCancelRemainder ==
    [][\A o \in Orders :
          (/\ o.time_in_force = Some("ImmediateOrCancel")
           /\ o.order_type \in {"Market", "Limit"}
           /\ Accepts(o)
           /\ AcceptableQty(books[o.instrument_id], OrderOf(o)) < o.quantity)
          => /\ order_counter \notin DOMAIN books'[o.instrument_id].order_index
             /\ \A q \in QueuedOrders' : q.order_id # order_counter
             /\ \E k \in 1..Len(responses') :
                    responses'[k] = OrderCancelled(o.client_id, order_counter)
             /\ AcceptableQty(books[o.instrument_id], OrderOf(o)) = 0
                    => responses' = << OrderAccepted(o.client_id, order_counter),
                                       OrderCancelled(o.client_id, order_counter) >>]_vars

\* p is a strictly better price than q for a resting order of the given side
BetterPrice(side, p, q) == IF side = "Buy" THEN p > q ELSE p < q

\* C16: price-time priority: in the fills of an accepted order, the resting
\* orders are filled from the best price outwards and, within a price, in
\* the order of their OrderIDs; every resting order but the last is filled
\* completely; and after the command no order rests at a better price than a
\* filled one, nor with a smaller OrderID at the price of a filled one.
PriceTimePriority ==
    [][(order_counter' = order_counter + 1 /\ ~panicked')
          => LET own == placed'[order_counter]
                 rside == IF own.side = "Buy" THEN "Sell" ELSE "Buy"
                 ladder == Opposite(books'[own.instrument_id], own.side)
                 fills == {k \in 1..Len(responses') :
                              /\ responses'[k].type = "OrderFilled"
                              /\ responses'[k].order_id # order_counter}
             IN  \A k \in fills :
                     /\ \A j \in fills :
                            j < k =>
                              /\ responses'[j].remaining_quantity = 0
                              /\ ~BetterPrice(rside, responses'[k].price,
                                              responses'[j].price)
                              /\ responses'[j].price = responses'[k].price
                                     => responses'[j].order_id < responses'[k].order_id
                     /\ \A p \in DOMAIN ladder :
                            ~BetterPrice(rside, p, responses'[k].price)
                     /\ responses'[k].price \in DOMAIN ladder
                            => \A n \in 1..Len(ladder[responses'[k].price]) :
                                   ladder[responses'[k].price][n].order_id
                                       >= responses'[k].order_id]_vars

\* One aggressor has filled two resting orders: five events, the fill pairs of
\* two different resting orders and OrderAccepted
TwoRestingOrdersFilled ==
    /\ ~panicked
    /\ Len(responses) = 5
    /\ responses[2].type = "OrderFilled"
    /\ responses[4].type = "OrderFilled"
    /\ responses[2].order_id # responses[4].order_id

\* The OrderIDs of the orders the engine holds: those of the order indexes and
\* of the ladders of all books (the engine has no other store of orders)
HeldOrderIDs ==
    {o.order_id : o \in QueuedOrders}
        \cup UNION {DOMAIN books[i].order_index : i \in DOMAIN books}

\* C17: a Stop or StopLimit order that is accepted without being triggered is
\* retained by the engine, to be triggered by a later command.
UntriggeredStopRetained ==
    [][\A o \in AllTypeOrders :
          (/\ o.order_type \in {"Stop", "StopLimit"}
           /\ Accepts(o)
           /\ ~StopTriggered(books[o.instrument_id], OrderOf(o)))
          => order_counter \in HeldOrderIDs']_vars

\* C18: no order of type Market (submitted so, or a Stop converted to it) is
\* in a ladder or in an order index.
NoRestingMarketOrders ==
    /\ \A o \in QueuedOrders : o.order_type # "Market"
    /\ \A i \in DOMAIN books :
           \A id \in DOMAIN books[i].order_index :
               books[i].order_index[id].order_type # "Market"

\* C19: determinism: the outcome of a command does not depend on the order in
\* which the books are visited; whichever book the CancelOrder loop could
\* stop at gives the books, the accounts and the event of the step taken (all
\* other commands visiting no map in iteration order).
CancelIndependentOfBookOrder ==
    [][\A id \in OrderIDs, s \in Sessions :
          CancelOrder(id, s[1], s[2])
          => \A i \in DOMAIN books :
                 LET r == remove_order(books[i], id, accounts, panicked')
                 IN  r.removed
                     => /\ books' = [books EXCEPT ![i] = r.book]
                        /\ accounts' = r.accounts
                        /\ panicked' = r.panicked
                        /\ ~panicked' => out' = Some(OrderCancelled(s[1], id))]_vars

\* An order has just been cancelled with two books to visit, an order still
\* resting in one of them
CancelledWithTwoBooks ==
    /\ ~panicked
    /\ \E c \in Clients, id \in OrderIDs : out = Some(OrderCancelled(c, id))
    /\ Cardinality(DOMAIN books) = 2
    /\ \E i \in DOMAIN books : books[i].order_index # << >>

\* C20: CreateInstrument for an instrument that has a book leaves every book,
\* every account and the order counter unchanged and emits no event.
CreateInstrumentIdempotent ==
    [][\A i \in Instruments :
          (i \in DOMAIN books /\ CreateInstrument(i))
          => /\ books' = books
             /\ accounts' = accounts
             /\ order_counter' = order_counter
             /\ Emitted' = << >>]_vars

\* CreateInstrument has just run for a book that holds an order: the last
\* command emitted nothing and the only instrument created has a resting order
CreatedAgainWithOrders ==
    /\ ~panicked
    /\ out = None
    /\ DOMAIN books = {"X"}
    /\ books["X"].order_index # << >>

\* C21: a CancelOrder for a resting order yields OrderCancelled and removes
\* the order from its ladder and from the order index, so that a second
\* CancelOrder for the same OrderID finds nothing: a CancelOrder for an
\* OrderID that is not resting yields OrderRejected "Order not found" and
\* leaves books, accounts and order counter unchanged.
CancelTwice ==
    [][\A id \in OrderIDs, s \in Sessions :
          CancelOrder(id, s[1], s[2])
          => IF id \in HeldOrderIDs
             THEN ~panicked' =>
                      /\ out' = Some(OrderCancelled(s[1], id))
                      /\ id \notin HeldOrderIDs'
             ELSE /\ out' = Some(OrderRejected("Order not found", s[1]))
                  /\ books' = books
                  /\ accounts' = accounts
                  /\ order_counter' = order_counter]_vars

\* The one order ever accepted, a buy that rested, has been cancelled (its
\* account has its cash back and no order is held), and the last command was
\* a CancelOrder that found nothing
CancelledThenNotFound ==
    /\ \E c \in Clients : out = Some(OrderRejected("Order not found", c))
    /\ order_counter = FirstOrderID + 1
    /\ placed[FirstOrderID].side = "Buy"
    /\ accounts[placed[FirstOrderID].account_id].cash = InitialCash
    /\ HeldOrderIDs = {}

\* C22: a NewOrder for an instrument that has no book yields OrderRejected
\* addressed to the submitting client and changes nothing: no book, no
\* account, no cash and no OrderID.
UnknownInstrumentRejected ==
    [][\A o \in AllTypeOrders :
          (o.instrument_id \notin DOMAIN books /\ Submit(o))
          => /\ Emitted' # << >>
             /\ Emitted'[1].type = "OrderRejected"
             /\ Emitted'[1].client_id = o.client_id
             /\ books' = books
             /\ accounts' = accounts
             /\ order_counter' = order_counter]_vars

\* An order for an instrument without a book has just been rejected, in an
\* engine that has another book and an account
UnknownInstrumentSeen ==
    /\ \E c \in Clients : out = Some(OrderRejected("Unknown instrument", c))
    /\ DOMAIN books # {}
    /\ DOMAIN books # Instruments
    /\ DOMAIN accounts # {}

\* C23: a NewOrder with quantity 0 or with a negative price is never
\* accepted: no OrderAccepted among its events, no OrderID taken, no book and
\* no account balance changed.
BoundaryOrdersRejected ==
    [][\A o \in IngressOrders :
          ((o.quantity = 0 \/ o.price[1] < 0) /\ Submit(o))
          => /\ \A k \in 1..Len(responses') :
                    responses'[k].type # "OrderAccepted"
             /\ order_counter' = order_counter
             /\ books' = books
             /\ \A a \in Accounts : CashOf(accounts', a) = CashOf(accounts, a)]_vars

\* C24: a line that decodes to InvalidMessage, the first of its connection or
\* a later one, puts nothing on the command channel.
InvalidNeverQueued ==
    [][(ReceiveLine(InvalidMessage) => channel' = channel)
       /\ \A k \in 1..Len(channel') : channel'[k].type # "InvalidMessage"]_vars

\* C25: OrderIDs are assigned in strictly increasing order and never reused:
\* the order counter never decreases; a step that accepts an order gives it
\* the counter's value, which is above every OrderID assigned before, reports
\* that OrderID in OrderAccepted and leaves the counter above it; a step that
\* ends with OrderRejected leaves the counter and the assigned OrderIDs as
\* they were.
OrderIDsIncrease ==
    [][LET n == Len(responses')
           accepted == DOMAIN placed' \ DOMAIN placed
       IN  /\ order_counter' >= order_counter
           /\ DOMAIN placed \subseteq DOMAIN placed'
           /\ (order_counter' # order_counter) = (accepted # {})
           /\ accepted # {} =>
                 /\ accepted = {order_counter}
                 /\ \A id \in DOMAIN placed : id < order_counter
                 /\ order_counter' > order_counter
                 /\ ~panicked' =>
                       /\ n > 0
                       /\ responses'[n].type = "OrderAccepted"
                       /\ responses'[n].order_id = order_counter
           /\ (out' # None /\ out'[1].type = "OrderRejected") => accepted = {}
           /\ \A id \in DOMAIN placed' : id < order_counter']_vars

\* An order was rejected for its cost after two orders were accepted
RejectedAfterTwoAccepted ==
    /\ order_counter = FirstOrderID + 2
    /\ out = Some(OrderRejected("Insufficient funds", "c1"))

\* The price levels of a ladder with the quantity queued at each, best first:
\* descending for bids, ascending for asks
RECURSIVE LevelsFrom(_, _)
LevelsFrom(ladder, descending) ==
    IF DOMAIN ladder = {} THEN << >>
    ELSE LET p == IF descending THEN Max(DOMAIN ladder) ELSE Min(DOMAIN ladder)
             quantity == SumFn([k \in 1..Len(ladder[p]) |-> ladder[p][k].quantity])
         IN  <<<<p, quantity>>>> \o LevelsFrom(MapRemove(ladder, p), descending)

\* C26: a Snapshot command for a known instrument returns a Snapshot event
\* with the price levels of each side (all of them, the books here having
\* fewer than K levels), each with the sum of the quantities queued at it,
\* bids in descending and asks in ascending price order, and changes nothing
\* of the engine's state.
SnapshotListsLevels ==
    [][\A i \in DOMAIN books : Snapshot(i) =>
          /\ out' # None
          /\ out'[1].type = "Snapshot"
          /\ out'[1].instrument_id = i
          /\ out'[1].bids = LevelsFrom(books[i].bids, TRUE)
          /\ out'[1].asks = LevelsFrom(books[i].asks, FALSE)
          /\ UNCHANGED <<order_counter, accounts, books>>]_vars

\* The order at place k of the queue at price p holds the quantity q after
\* the step, the rest of the queue being as before
ShrunkInPlace(before, after, p, k, q) ==
    /\ p \in DOMAIN after
    /\ after[p] = [before[p] EXCEPT ![k].quantity = q]

\* C27: an AmendOrder that lowers the quantity of a resting order and keeps
\* its price shrinks the order in place: the order keeps its place in the
\* queue of its price level, its quantity in the queue and in the order index
\* becomes the new quantity, and OrderAmended is emitted.
AmendShrinksInPlace ==
    [][\A i \in DOMAIN books, side \in Sides :
         LET ladder == Own(books[i], side)
         IN  \A p \in DOMAIN ladder : \A k \in 1..Len(ladder[p]) :
             \A q \in 1..(ladder[p][k].quantity - 1) :
                AmendOrderCommand(ladder[p][k].sender_id, ladder[p][k].order_id,
                                  Some(q), None) =>
                   /\ ShrunkInPlace(ladder, Own(books'[i], side), p, k, q)
                   /\ ladder[p][k].order_id \in DOMAIN books'[i].order_index
                   /\ books'[i].order_index[ladder[p][k].order_id].quantity = q
                   /\ Emitted' # << >>
                   /\ Emitted'[1].type = "OrderAmended"
                   /\ Emitted'[1].order_id = ladder[p][k].order_id]_vars

\* The places <<side, price, index>> of the orders queued in a book
SlotsOf(book) ==
    UNION {UNION {{<<side, p, k>> : k \in 1..Len(Own(book, side)[p])} :
                  p \in DOMAIN Own(book, side)} : side \in Sides}

SlotOrder(book, slot) == Own(book, slot[1])[slot[2]][slot[3]]

IndexConsistentIn(book) ==
    /\ {SlotOrder(book, x).order_id : x \in SlotsOf(book)} = DOMAIN book.order_index
    /\ \A x, y \in SlotsOf(book) :
          SlotOrder(book, x).order_id = SlotOrder(book, y).order_id => x = y
    /\ \A x \in SlotsOf(book) :
          LET entry == book.order_index[SlotOrder(book, x).order_id]
          IN  entry.side = x[1] /\ entry.price = x[2]

\* C28: order-index consistency: after every command that ran to its end, in
\* every book the OrderIDs queued in the two ladders are the keys of the
\* order index, each OrderID is queued once, and the index records for each
\* the side and the price level where it is queued.
IndexConsistent ==
    ~panicked => \A i \in DOMAIN books : IndexConsistentIn(books[i])

\* A book holds two orders, one of them partly filled since it was indexed
IndexedAfterPartialFill ==
    /\ ~panicked
    /\ \E i \in DOMAIN books :
          /\ Cardinality(DOMAIN books[i].order_index) >= 2
          /\ \E x \in SlotsOf(books[i]) :
                books[i].order_index[SlotOrder(books[i], x).order_id].quantity
                    # SlotOrder(books[i], x).quantity

\* The orders queued in a ladder, each with the price level it is queued at
LadderEntries(ladder) ==
    UNION {{[level |-> p, order |-> ladder[p][k]] : k \in 1..Len(ladder[p])} :
           p \in DOMAIN ladder}

\* C29: every trade of an accepted order is priced at the price level of the
\* resting order and respects the aggressor's limit (at most the limit of a
\* Limit buy, at least the limit of a Limit sell); its quantity is the smaller
\* of the aggressor's remaining quantity and the resting order's quantity;
\* the two fills report both orders' quantities reduced by it, and the book
\* holds the resting order, and the aggressor if it rests, with that reduced
\* quantity.
TradeAtRestingPrice ==
    [][(order_counter' = order_counter + 1 /\ ~panicked' /\ Len(responses') > 1) =>
         \A o \in LadderOrders : Submit(o) =>
            LET before == LadderEntries(Opposite(books[o.instrument_id], o.side))
                after == LadderEntries(Opposite(books'[o.instrument_id], o.side))
                own == LadderEntries(Own(books'[o.instrument_id], o.side))
                trades == 1..((Len(responses') - 1) \div 2)
                taken(j) == SumFn([l \in 1..(j - 1) |->
                                    responses'[2 * l - 1].filled_quantity])
                left == o.quantity - taken(Len(responses') \div 2 + 1)
            IN  /\ \A j \in trades :
                     LET a == responses'[2 * j - 1]
                         r == responses'[2 * j]
                     IN  /\ a.type = "OrderFilled" /\ r.type = "OrderFilled"
                         /\ a.order_id = order_counter
                         /\ \E e \in before :
                              /\ e.order.order_id = r.order_id
                              /\ a.price = e.level /\ r.price = e.level
                              /\ e.order.price = e.level
                              /\ a.filled_quantity
                                   = (IF o.quantity - taken(j) <= e.order.quantity
                                      THEN o.quantity - taken(j)
                                      ELSE e.order.quantity)
                              /\ r.filled_quantity = a.filled_quantity
                              /\ a.filled_quantity > 0
                              /\ a.remaining_quantity
                                   = o.quantity - taken(j) - a.filled_quantity
                              /\ r.remaining_quantity
                                   = e.order.quantity - r.filled_quantity
                              /\ IF r.remaining_quantity > 0
                                 THEN [e EXCEPT !.order.quantity = r.remaining_quantity]
                                         \in after
                                 ELSE \A x \in after : x.order.order_id # r.order_id
                         /\ (o.order_type = "Limit" /\ o.side = "Buy")
                               => a.price <= o.price[1]
                         /\ (o.order_type = "Limit" /\ o.side = "Sell")
                               => a.price >= o.price[1]
                /\ \A x \in own :
                      x.order.order_id = order_counter => x.order.quantity = left]_vars

\* A buy was filled in part at the lower price of a resting sell and rests
\* with what is left at its own, higher limit
FilledBelowLimitThenRests ==
    /\ ~panicked
    /\ Len(responses) = 3
    /\ responses[1].type = "OrderFilled"
    /\ responses[1].price = 10
    /\ responses[1].remaining_quantity > 0
    /\ \E i \in DOMAIN books :
          /\ 150 \in DOMAIN books[i].bids
          /\ \E k \in 1..Len(books[i].bids[150]) :
                /\ books[i].bids[150][k].order_id = responses[1].order_id
                /\ books[i].bids[150][k].quantity = responses[1].remaining_quantity

\* The Stop and StopLimit commands of SpecAll
StopOrders == {o \in AllTypeOrders : o.order_type \in {"Stop", "StopLimit"}}

\* The trigger condition as the claim states it, the trigger price being the
\* order's price: a best opposite price exists and has reached the trigger
TriggerReached(book, side, trigger) ==
    IF side = "Buy"
    THEN book.asks # EmptyMap /\ Min(DOMAIN book.asks) >= trigger
    ELSE book.bids # EmptyMap /\ Max(DOMAIN book.bids) <= trigger

\* What matching makes of the order of command o taken as a Market (Stop) or
\* Limit (StopLimit) order, the cost of o charged
MatchedAsConverted(o) ==
    match_order(books[o.instrument_id],
                [OrderOf(o) EXCEPT !.order_type = ConvertedType(@)],
                [WithAccount(accounts, o.account_id) EXCEPT ![o.account_id].cash =
                    @ - TotalCost(o.price, o.quantity)],
                FALSE)

\* C30: the stop trigger at submission: a buy Stop or StopLimit goes on to
\* matching exactly when a best ask exists and is at or above its trigger
\* price, a sell exactly when a best bid exists and is at or below it: the
\* book and the fills are then those of matching the order as a Market (Stop)
\* or Limit (StopLimit) order. Otherwise the order causes no fill, leaves the
\* book as it was and is neither in a ladder nor in the order index.
StopTriggerCondition ==
    [][(order_counter' = order_counter + 1 /\ ~panicked'
           /\ placed'[order_counter].stop) =>
       \A o \in StopOrders :
          (o.side = placed'[order_counter].side /\ Accepts(o)) =>
          IF TriggerReached(books[o.instrument_id], o.side, OrderOf(o).price)
          THEN /\ books'[o.instrument_id] = MatchedAsConverted(o).book
               /\ responses' = Append(MatchedAsConverted(o).fills,
                                      OrderAccepted(o.client_id, order_counter))
               /\ accounts' = MatchedAsConverted(o).accounts
          ELSE /\ responses' = <<OrderAccepted(o.client_id, order_counter)>>
               /\ books' = books
               /\ order_counter \notin HeldOrderIDs']_vars

\* A stop order whose trigger price equalled the best opposite price traded
\* at that price
StopTriggeredAtEquality ==
    /\ ~panicked
    /\ Len(responses) = 3
    /\ responses[1].type = "OrderFilled"
    /\ responses[1].order_id \in DOMAIN placed
    /\ placed[responses[1].order_id].stop
    /\ responses[1].price = 10
    /\ responses[3] = OrderAccepted("c1", responses[1].order_id)
    /\ \E i \in DOMAIN books :
          /\ responses[1].order_id \in DOMAIN books[i].order_index
          /\ books[i].order_index[responses[1].order_id].price = 10

\* C31: after every command that ran to its end, no price level of a bid or
\* ask ladder has an empty queue, and every order queued in a ladder has a
\* quantity above 0.
NoEmptyLevels ==
    ~panicked =>
       \A i \in DOMAIN books : \A side \in Sides :
          \A p \in DOMAIN Own(books[i], side) :
             /\ Own(books[i], side)[p] # << >>
             /\ \A k \in 1..Len(Own(books[i], side)[p]) :
                   Own(books[i], side)[p][k].quantity > 0

\* A resting order was filled whole, its price level is gone from the book,
\* and the book still holds another order
LevelEmptiedAndDropped ==
    /\ ~panicked
    /\ Len(responses) >= 3
    /\ responses[2].type = "OrderFilled"
    /\ responses[2].remaining_quantity = 0
    /\ LET book == books[responses[2].instrument_id]
       IN  /\ responses[2].price \notin DOMAIN book.bids
           /\ responses[2].price \notin DOMAIN book.asks
           /\ book.order_index # EmptyMap

\* C32: for every resting order, the quantity in the order index's copy of
\* the order is the quantity of the copy queued in the ladder.
IndexQuantityCurrent ==
    ~panicked =>
       \A i \in DOMAIN books : \A x \in SlotsOf(books[i]) :
          LET queued == SlotOrder(books[i], x)
          IN  queued.order_id \in DOMAIN books[i].order_index
                => books[i].order_index[queued.order_id].quantity = queued.quantity

\* C33: CancelOrder does not test ownership: whatever client and account the
\* command names, a resting order with the given OrderID leaves the book; the
\* refund (the price times the quantity of the index's copy for a buy, that
\* quantity as position for a sell) goes to the account that placed the
\* order, every other account, the requester's included, staying as it was
\* and no account being created; and OrderCancelled names the requesting
\* client.
CancelIgnoresOwnership ==
    [][\A id \in OrderIDs, s \in Sessions :
          (/\ \E o \in QueuedOrders : o.order_id = id
           /\ CancelOrder(id, s[1], s[2])
           /\ ~panicked')
          => LET i == placed[id].instrument_id
                 o == books[i].order_index[id]
                 owner == o.account_id
             IN  /\ owner = placed[id].account_id
                 /\ id \notin HeldOrderIDs'
                 /\ out' = Some(OrderCancelled(s[1], id))
                 /\ DOMAIN accounts' = DOMAIN accounts
                 /\ \A a \in DOMAIN accounts \ {owner} : accounts'[a] = accounts[a]
                 /\ IF o.side = "Buy"
                    THEN accounts'[owner] =
                            [accounts[owner] EXCEPT !.cash = @ + o.price * o.quantity]
                    ELSE accounts'[owner] =
                            [accounts[owner] EXCEPT !.positions =
                                PositionAdd(@, i, o.quantity)]]_vars

\* Client c2, whose account B has never been created, has cancelled the buy
\* order of account A, and A has its cash back
CancelledByAnotherClient ==
    /\ ~panicked
    /\ "B" \notin DOMAIN accounts
    /\ \E id \in DOMAIN placed :
          /\ out = Some(OrderCancelled("c2", id))
          /\ placed[id].account_id = "A"
          /\ placed[id].side = "Buy"
    /\ order_counter = FirstOrderID + 1
    /\ accounts["A"].cash = InitialCash

====
